---- MODULE Spec2Model ----
(***************************************************************************)
(* Model of rci/model/base.py: the node hierarchy (LeafNode,               *)
(* SimpleLeafNode, BranchNode, TargetNode), value rendering (toxml),       *)
(* request dispatch (handle_xml) and the attribute matcher (_tree_match).  *)
(*                                                                         *)
(* Python strings are sequences of markup tokens, None is a distinct       *)
(* optional value, and a raised exception is a result with a non-empty     *)
(* err field that every caller propagates.                                 *)
(***************************************************************************)
EXTENDS Integers, Sequences, FiniteSets, TLC

VARIABLES children, accIdx, op, trav

vars == <<children, accIdx, op, trav>>

-----------------------------------------------------------------------------
(* Python values *)

\* None / str for an optional string (body, text, tail)
PyNone == [none |-> TRUE, s |-> <<>>]

Str(s) == [none |-> FALSE, s |-> s]

\* None / dict for an attribute mapping; a dict is a set of <<key, value>>
NoneAttr == [none |-> TRUE, kv |-> {}]

Dict(kv) == [none |-> FALSE, kv |-> kv]

\* literal text inside a string
Text(s) == [t |-> "text", n |-> s, a |-> NoneAttr]

\* a returned string, or a raised exception, with the environment after it
Ok(v, st) == [err |-> "", v |-> v, st |-> st]

Raise(e, st) == [err |-> e, v |-> <<>>, st |-> st]

\* s + rest, unless computing rest raised
Prepend(s, rest) ==
    IF rest.err # "" THEN rest ELSE Ok(s \o rest.v, rest.st)

-----------------------------------------------------------------------------
(* The parsed request tree handed over by the XML facility *)

Elem(tag, attrib, kids, text, tail) ==
    [tag |-> tag, attrib |-> attrib, children |-> kids,
     text |-> text, tail |-> tail]

\* an element without text around it
E0(tag, attrib, kids) == Elem(tag, attrib, kids, PyNone, PyNone)

\* the serializer writes no attribute text for an empty mapping
AttrText(attrib) == IF attrib = {} THEN NoneAttr ELSE Dict(attrib)

RECURSIVE ElemXml(_)
RECURSIVE ET_tostring(_)
RECURSIVE ET_tostring_all(_)

\* the element and its subtree, as the serializer writes them
ElemXml(e) ==
    IF e.children = <<>> /\ (e.text.none \/ e.text.s = <<>>)
    THEN <<[t |-> "empty", n |-> e.tag, a |-> AttrText(e.attrib)]>>
    ELSE <<[t |-> "open", n |-> e.tag, a |-> AttrText(e.attrib)]>>
         \o e.text.s \o ET_tostring_all(e.children)
         \o <<[t |-> "close", n |-> e.tag, a |-> NoneAttr]>>

\* ET.tostring writes the element followed by its tail
ET_tostring(e) == ElemXml(e) \o e.tail.s

ET_tostring_all(es) ==
    IF es = <<>> THEN <<>>
    ELSE ET_tostring(Head(es)) \o ET_tostring_all(Tail(es))

-----------------------------------------------------------------------------
(* The schema nodes *)

\* RCIAttribute(name, desc, values): values is the list of value names
RCIAttribute(name, values) == [name |-> name, values |-> values]

MkNode(kind, name, attrs, callback, accessor) ==
    [kind |-> kind, name |-> name, attrs |-> attrs,
     callback |-> callback, accessor |-> accessor]

\* accessor results: a bare string, or a (body, attributes) pair
AccStr(s) == [shape |-> "str", body |-> Str(s), attributes |-> NoneAttr]

AccPair(body, attributes) ==
    [shape |-> "pair", body |-> body, attributes |-> attributes]

UnitC == Dict({<<"unit", "C">>})

\* the nodes constructed by the program under analysis
Nodes ==
    <<MkNode("TargetNode", "cmd", <<>>, FALSE, <<>>),
      MkNode("TargetNode", "cb", <<>>, TRUE, <<>>),
      MkNode("BranchNode", "root", <<>>, FALSE, <<>>),
      MkNode("BranchNode", "port",
             <<RCIAttribute("id", {"1", "2"})>>, FALSE, <<>>),
      MkNode("BranchNode", "port",
             <<RCIAttribute("id", {"2", "3"})>>, FALSE, <<>>),
      MkNode("LeafNode", "x", <<>>, FALSE, <<>>),
      MkNode("SimpleLeafNode", "y", <<>>, FALSE,
             <<AccPair(Str(<<Text("42")>>), UnitC)>>),
      MkNode("SimpleLeafNode", "t", <<>>, FALSE, <<>>),
      MkNode("SimpleLeafNode", "x", <<>>, FALSE,
             <<AccStr(<<Text("42")>>)>>),
      MkNode("SimpleLeafNode", "u", <<>>, FALSE,
             <<AccStr(<<Text("42")>>), AccPair(Str(<<Text("42")>>), UnitC),
               AccPair(PyNone, Dict({})), AccStr(<<>>)>>),
      MkNode("SimpleLeafNode", "w", <<>>, FALSE,
             <<AccPair(Str(<<Text("42")>>), UnitC), AccStr(<<Text("42")>>),
               AccPair(Str(<<Text("43")>>), UnitC)>>)>>

Ids == 1 .. Len(Nodes)

IsBranch(n) == Nodes[n].kind \in {"BranchNode", "TargetNode"}

\* the environment threaded through a call: the position of every accessor
\* in its sequence of results, and what the call has invoked so far
Env(idx) == [acc |-> idx, calls |-> [n \in Ids |-> 0], cb |-> <<>>,
             setter |-> 0, matched |-> <<>>]

-----------------------------------------------------------------------------
(* Node *)

_xml_tag(n, body, attributes) ==
    IF ~body.none /\ Len(body.s) > 0
    THEN <<[t |-> "open", n |-> Nodes[n].name, a |-> attributes]>>
         \o body.s
         \o <<[t |-> "close", n |-> Nodes[n].name, a |-> NoneAttr]>>
    ELSE <<[t |-> "empty", n |-> Nodes[n].name, a |-> attributes]>>

LeafNode_toxml(n, st) == Ok(_xml_tag(n, PyNone, NoneAttr), st)

\* self.accessor(): the next result of the externally supplied function
accessor(n, st) ==
    [value |-> Nodes[n].accessor[st.acc[n]],
     st |-> [st EXCEPT !.acc[n] = (st.acc[n] % Len(Nodes[n].accessor)) + 1,
                       !.calls[n] = st.calls[n] + 1]]

\* variant: the attributes of a pair result are not passed on
SimpleLeafNode_toxml_unpack_NoAttributes(n, second) ==
    IF second.value.shape = "pair"
    THEN Ok(_xml_tag(n, second.value.body, NoneAttr), second.st)
    ELSE Raise("UnpackError", second.st)

\* body, attributes = self.accessor(); return self._xml_tag(body, attributes)
SimpleLeafNode_toxml_unpack(n, second) ==
    IF second.value.shape = "pair"
    THEN Ok(_xml_tag(n, second.value.body, second.value.attributes),
            second.st)
    ELSE Raise("UnpackError", second.st)

\* value = self.accessor(); if isinstance(value, str) ... else ...
SimpleLeafNode_toxml_value(n, first) ==
    IF first.value.shape = "str"
    THEN Ok(_xml_tag(n, first.value.body, NoneAttr), first.st)
    ELSE SimpleLeafNode_toxml_unpack(n, accessor(n, first.st))

SimpleLeafNode_toxml(n, st) ==
    IF Nodes[n].accessor # <<>>
    THEN SimpleLeafNode_toxml_value(n, accessor(n, st))
    ELSE Ok(_xml_tag(n, PyNone, NoneAttr), st)

RECURSIVE toxml(_, _, _)
RECURSIVE BranchNode_toxml_join(_, _, _)

\* the rest of the join once the first child is rendered as r
BranchNode_toxml_rest(ch, kids, r) ==
    IF r.err # "" THEN r
    ELSE Prepend(r.v, BranchNode_toxml_join(ch, kids, r.st))

\* ''.join(child.toxml() for child in self.children)
BranchNode_toxml_join(ch, kids, st) ==
    IF kids = <<>> THEN Ok(<<>>, st)
    ELSE BranchNode_toxml_rest(ch, Tail(kids), toxml(ch, Head(kids), st))

\* self._xml_tag(output) around a computed body
WrapTag(n, body) ==
    IF body.err # "" THEN body
    ELSE Ok(_xml_tag(n, Str(body.v), NoneAttr), body.st)

BranchNode_toxml(ch, n, st) ==
    WrapTag(n, BranchNode_toxml_join(ch, ch[n], st))

\* method resolution of node.toxml()
toxml(ch, n, st) ==
    CASE Nodes[n].kind = "LeafNode" -> LeafNode_toxml(n, st)
      [] Nodes[n].kind = "SimpleLeafNode" -> SimpleLeafNode_toxml(n, st)
      [] OTHER -> BranchNode_toxml(ch, n, st)

-----------------------------------------------------------------------------
(* The attribute matcher *)

\* outcomes of a lookup besides a node: None, and the two exceptions
NoMatch == 0

AssertionError == 0 - 1

NotIterable == 0 - 2

\* variant: only the attribute names are compared, any value is legal
device_node_attrib_set_AnyValue(n) ==
    {<<Nodes[n].attrs[i].name, v>> : i \in DOMAIN Nodes[n].attrs,
                                     v \in {"1", "2", "3"}}

\* device_node_attrib_set
device_node_attrib_set(n) ==
    UNION {{<<Nodes[n].attrs[i].name, v>> : v \in Nodes[n].attrs[i].values}
           : i \in DOMAIN Nodes[n].attrs}

RECURSIVE _tree_match_helper(_, _, _)
RECURSIVE _tree_match_loop(_, _, _)

\* for child in device_node: ret = helper(xml_node, child); first non-None
\* variant: the first candidate that matches at its level decides the lookup
_tree_match_loop_NoBacktrack(ch, xml_node, kids) ==
    IF kids = <<>> THEN NoMatch
    ELSE IF /\ xml_node.attrib \subseteq device_node_attrib_set(Head(kids))
            /\ Nodes[Head(kids)].name = xml_node.tag
         THEN _tree_match_helper(ch, xml_node, Head(kids))
         ELSE _tree_match_loop(ch, xml_node, Tail(kids))

\* if ret is not None: return ret; else go on with the loop
NotNoneOr(ret, rest) == IF ret # NoMatch THEN ret ELSE rest

_tree_match_loop(ch, xml_node, kids) ==
    IF kids = <<>> THEN NoMatch
    ELSE NotNoneOr(_tree_match_helper(ch, xml_node, Head(kids)),
                   _tree_match_loop(ch, xml_node, Tail(kids)))

\* variant: the assertion is not evaluated, the first nested child is used
_tree_match_helper_NoAssert(ch, xml_node, device_node) ==
    IF /\ xml_node.attrib \subseteq device_node_attrib_set(device_node)
       /\ Nodes[device_node].name = xml_node.tag
    THEN IF Len(xml_node.children) = 0
         THEN device_node
         ELSE IF ~IsBranch(device_node)
              THEN NotIterable
              ELSE _tree_match_loop(ch, xml_node.children[1],
                                    ch[device_node])
    ELSE NoMatch

_tree_match_helper(ch, xml_node, device_node) ==
    IF /\ xml_node.attrib \subseteq device_node_attrib_set(device_node)
       /\ Nodes[device_node].name = xml_node.tag
    THEN IF Len(xml_node.children) = 0
         THEN device_node
         ELSE IF Len(xml_node.children) # 1
              THEN AssertionError
              ELSE IF ~IsBranch(device_node)
                   THEN NotIterable
                   ELSE _tree_match_loop(ch, xml_node.children[1],
                                         ch[device_node])
    ELSE NoMatch

_tree_match(ch, xml_node, device_node) ==
    _tree_match_loop(ch, xml_node, ch[device_node])

MatchError(m) ==
    IF m = AssertionError THEN "AssertionError" ELSE "TypeError"

RECURSIVE BranchNode_handle_xml_loop(_, _, _, _)

\* the rest of the loop once the first request child has added r
BranchNode_handle_xml_rest(ch, n, xs, r) ==
    IF r.err # "" THEN r
    ELSE Prepend(r.v, BranchNode_handle_xml_loop(ch, n, xs, r.st))

\* if match_node: output += match_node.toxml(); else: output += ''
BranchNode_handle_xml_match(ch, match_node, st) ==
    IF match_node < 0 THEN Raise(MatchError(match_node), st)
    ELSE IF match_node # NoMatch THEN toxml(ch, match_node, st)
    ELSE Ok(<<>>, st)

\* the value of the local match_node, kept for the properties
Matched(st, match_node) ==
    [st EXCEPT !.matched = Append(st.matched, match_node)]

\* one pass of the loop body, match_node being the lookup's result
BranchNode_handle_xml_body(ch, n, xs, match_node, st) ==
    BranchNode_handle_xml_rest(ch, n, xs,
        BranchNode_handle_xml_match(ch, match_node, Matched(st, match_node)))

\* the loop of BranchNode.handle_xml over the request's children
BranchNode_handle_xml_loop(ch, n, xs, st) ==
    IF xs = <<>> THEN Ok(<<>>, st)
    ELSE BranchNode_handle_xml_body(ch, n, Tail(xs),
                                    _tree_match(ch, Head(xs), n), st)

\* variant: a request without children is not answered with toxml()
BranchNode_handle_xml_NoEcho(ch, n, xml_tree, st) ==
    WrapTag(n, BranchNode_handle_xml_loop(ch, n, xml_tree.children, st))

BranchNode_handle_xml(ch, n, xml_tree, st) ==
    IF Len(xml_tree.children) = 0
    THEN toxml(ch, n, st)
    ELSE WrapTag(n, BranchNode_handle_xml_loop(ch, n, xml_tree.children, st))

-----------------------------------------------------------------------------
(* TargetNode *)

RECURSIVE get_loop(_, _)

\* BranchNode.get: the first child of that name, else the default None
get_loop(kids, name) ==
    IF kids = <<>> THEN NoMatch
    ELSE IF Nodes[Head(kids)].name = name THEN Head(kids)
         ELSE get_loop(Tail(kids), name)

get(ch, n, name) == get_loop(ch[n], name)

\* the externally supplied callback: its reply depends on its argument
callback(xml_payload) == <<Text("reply-to:")>> \o xml_payload

\* s += t on optional strings: None on either side is a TypeError
PyAdd(s, t) == IF s.none \/ t.none THEN PyNone ELSE Str(s.s \o t.s)

RECURSIVE TargetNode_payload_loop(_, _)

\* for parameter in list(xml_tree): xml_payload += ET.tostring(parameter)
TargetNode_payload_loop(xml_payload, params) ==
    IF params = <<>> THEN xml_payload
    ELSE TargetNode_payload_loop(
             PyAdd(xml_payload, Str(ET_tostring(Head(params)))),
             Tail(params))

RECURSIVE handle_xml(_, _, _, _)
RECURSIVE TargetNode_handle_xml_loop(_, _, _, _)

\* the loop of the structural branch of TargetNode.handle_xml
\* the rest of the loop once the first request child has added r
TargetNode_handle_xml_rest(ch, n, xs, r) ==
    IF r.err # "" THEN r
    ELSE Prepend(r.v, TargetNode_handle_xml_loop(ch, n, xs, r.st))

\* variant: the matched child is rendered instead of handed the fragment
TargetNode_handle_xml_child_Toxml(ch, child_node, xml_child, st) ==
    IF child_node # NoMatch
    THEN toxml(ch, child_node, st)
    ELSE Ok(<<>>, st)

\* if child_node: ret += child_node.handle_xml(xml_child); else: pass
TargetNode_handle_xml_child(ch, child_node, xml_child, st) ==
    IF child_node # NoMatch
    THEN handle_xml(ch, child_node, xml_child, st)
    ELSE Ok(<<>>, st)

TargetNode_handle_xml_loop(ch, n, xs, st) ==
    IF xs = <<>> THEN Ok(<<>>, st)
    ELSE TargetNode_handle_xml_rest(ch, n, Tail(xs),
             TargetNode_handle_xml_child(ch, get(ch, n, Head(xs).tag),
                                         Head(xs), st))

\* return self.callback(xml_payload); a None among the parts has raised
TargetNode_handle_xml_callback(xml_payload, st) ==
    IF xml_payload.none THEN Raise("TypeError", st)
    ELSE Ok(callback(xml_payload.s),
            [st EXCEPT !.cb = Append(st.cb, xml_payload.s)])

TargetNode_handle_xml(ch, n, xml_tree, st) ==
    IF Nodes[n].callback
    THEN TargetNode_handle_xml_callback(
             PyAdd(TargetNode_payload_loop(xml_tree.text, xml_tree.children),
                   xml_tree.tail), st)
    ELSE TargetNode_handle_xml_loop(ch, n, xml_tree.children, st)

\* method resolution of node.handle_xml(etree_node)
handle_xml(ch, n, etree_node, st) ==
    CASE Nodes[n].kind = "TargetNode" ->
             TargetNode_handle_xml(ch, n, etree_node, st)
      [] Nodes[n].kind = "BranchNode" ->
             BranchNode_handle_xml(ch, n, etree_node, st)
      [] OTHER -> toxml(ch, n, st)

-----------------------------------------------------------------------------
(* The XML facility's parser, used to feed a rendering back as a request *)

\* the tokens before the first element
LeadText(toks) ==
    LET n == IF \A i \in DOMAIN toks : toks[i].t = "text" THEN Len(toks)
             ELSE (CHOOSE i \in DOMAIN toks :
                      /\ toks[i].t # "text"
                      /\ \A j \in 1 .. i - 1 : toks[j].t = "text") - 1
    IN SubSeq(toks, 1, n)

Depth(toks, j) ==
    Cardinality({k \in 1 .. j : toks[k].t = "open"})
    - Cardinality({k \in 1 .. j : toks[k].t = "close"})

\* the end of the element that starts at the first token
ElemEnd(toks) ==
    IF toks[1].t = "empty" THEN 1
    ELSE CHOOSE j \in DOMAIN toks :
             /\ Depth(toks, j) = 0
             /\ \A k \in 1 .. j - 1 : Depth(toks, k) > 0

OptStr(toks) == IF toks = <<>> THEN PyNone ELSE Str(toks)

RECURSIVE ParseElems(_)

\* the elements of a token sequence that starts with an element
ParseElems(toks) ==
    IF toks = <<>> THEN <<>>
    ELSE LET last == ElemEnd(toks)
             inner == SubSeq(toks, 2, last - 1)
             after == SubSeq(toks, last + 1, Len(toks))
             text == LeadText(inner)
             tail == LeadText(after)
         IN <<Elem(toks[1].n, toks[1].a.kv,
                   ParseElems(SubSeq(inner, Len(text) + 1, Len(inner))),
                   OptStr(text), OptStr(tail))>>
            \o ParseElems(SubSeq(after, Len(tail) + 1, Len(after)))

ET_fromstring(toks) == ParseElems(toks)[1]

-----------------------------------------------------------------------------
(* State and operations *)

\* most children attached to one branch
MaxChildren == 3

NoReq == E0("", {}, <<>>)

\* the record of the last call: its receiver, argument, outcome and what it
\* invoked
Call(name, n, req, pre, r) ==
    [name |-> name, node |-> n, req |-> req, pre |-> pre,
     err |-> r.err, v |-> r.v, calls |-> r.st.calls, cb |-> r.st.cb,
     setter |-> r.st.setter, matched |-> r.st.matched]

NoCall == Call("", 0, NoReq, [n \in Ids |-> 1], Ok(<<>>, Env([n \in Ids |-> 1])))

NoTrav == [kind |-> "", node |-> 0, snapshot |-> <<>>, live |-> FALSE,
           start |-> <<>>, i |-> 0, visited |-> <<>>, done |-> TRUE]

Attached(ch) == UNION {{ch[p][i] : i \in DOMAIN ch[p]} : p \in Ids}

\* BranchNode.__init__ leaves every branch without children
Init ==
    /\ children = [n \in Ids |-> <<>>]
    /\ accIdx = [n \in Ids |-> 1]
    /\ op = NoCall
    /\ trav = NoTrav

\* BranchNode.attach(child) on branch p; the schema built is a tree
attach(p, c) ==
    /\ IsBranch(p)
    /\ c > p
    /\ c \notin Attached(children)
    /\ Len(children[p]) < MaxChildren
    /\ children' = [children EXCEPT ![p] = Append(children[p], c)]
    /\ op' = NoCall
    /\ UNCHANGED <<accIdx, trav>>

\* the record a call leaves behind
Return(name, n, req, r) ==
    /\ op' = Call(name, n, req, accIdx, r)
    /\ accIdx' = r.st.acc
    /\ UNCHANGED <<children, trav>>

\* branch.handle_xml(xml_tree) on a BranchNode
BranchHandleXml(n, xml_tree) ==
    /\ Nodes[n].kind = "BranchNode"
    /\ Return("BranchNode.handle_xml", n, xml_tree,
              BranchNode_handle_xml(children, n, xml_tree, Env(accIdx)))

\* target.handle_xml(xml_tree) on a TargetNode
TargetHandleXml(n, xml_tree) ==
    /\ Nodes[n].kind = "TargetNode"
    /\ Return("TargetNode.handle_xml", n, xml_tree,
              TargetNode_handle_xml(children, n, xml_tree, Env(accIdx)))

\* branch.handle_xml(ET.fromstring(branch.toxml())) on a BranchNode
RoundTripOf(n, out) ==
    Return("round trip", n, ET_fromstring(out.v),
           BranchNode_handle_xml(children, n, ET_fromstring(out.v), out.st))

RoundTrip(n) ==
    /\ Nodes[n].kind = "BranchNode"
    /\ RoundTripOf(n, toxml(children, n, Env(accIdx)))

\* leaf.toxml() on a SimpleLeafNode
LeafToxml(n) ==
    /\ Nodes[n].kind = "SimpleLeafNode"
    /\ Return("SimpleLeafNode.toxml", n, NoReq,
              SimpleLeafNode_toxml(n, Env(accIdx)))

\* the device behind an accessor changes what the next call returns
DeviceChange(n) ==
    /\ Nodes[n].accessor # <<>>
    /\ accIdx' = [accIdx EXCEPT ![n] = (accIdx[n] % Len(Nodes[n].accessor)) + 1]
    /\ UNCHANGED <<children, op, trav>>

\* the traversals of a branch's children: through __iter__ (a copy), or
\* over self.children itself (the live list)
CopyTraversals == {"_tree_match", "_tree_match_helper", "get"}

LiveTraversals == {"toxml", "to_descriptor_xml"}

\* a for loop over the children of branch b starts
StartTraversal(kind, b) ==
    /\ trav.done
    /\ IsBranch(b)
    /\ trav' = [kind |-> kind, node |-> b,
                live |-> kind \in LiveTraversals,
                snapshot |-> IF kind \in LiveTraversals THEN <<>>
                             ELSE children[b],
                start |-> children[b], i |-> 1, visited |-> <<>>,
                done |-> FALSE]
    /\ UNCHANGED <<children, accIdx, op>>

\* the loop's iterator yields its next child, or is exhausted
StepTraversal ==
    /\ ~trav.done
    /\ LET list == IF trav.live THEN children[trav.node] ELSE trav.snapshot
       IN IF trav.i <= Len(list)
          THEN trav' = [trav EXCEPT !.visited = Append(trav.visited,
                                                       list[trav.i]),
                                    !.i = trav.i + 1]
          ELSE trav' = [trav EXCEPT !.done = TRUE]
    /\ UNCHANGED <<children, accIdx, op>>

-----------------------------------------------------------------------------
(* Requests *)

NoAttrib == {}

Id(v) == {<<"id", v>>}

X == E0("x", NoAttrib, <<>>)

Y == E0("y", NoAttrib, <<>>)

\* request elements without nested children
LeafElems ==
    {E0("port", NoAttrib, <<>>), E0("port", Id("1"), <<>>),
     E0("port", Id("3"), <<>>), E0("other", Id("1"), <<>>), X, Y}

\* request elements with exactly one nested child
NestedElems ==
    {E0("port", NoAttrib, <<X>>), E0("port", NoAttrib, <<Y>>),
     E0("port", Id("2"), <<Y>>), E0("other", NoAttrib, <<X>>),
     E0("x", NoAttrib, <<Y>>), E0("port", NoAttrib, <<E0("port", NoAttrib, <<X>>)>>)}

\* request elements with two nested children, at the top or one level down
MultiElems ==
    {E0("port", NoAttrib, <<X, Y>>), E0("other", NoAttrib, <<X, Y>>),
     E0("x", NoAttrib, <<X, Y>>),
     E0("port", NoAttrib, <<E0("x", NoAttrib, <<X, Y>>)>>),
     E0("port", NoAttrib, <<E0("other", NoAttrib, <<X, Y>>)>>),
     E0("port", NoAttrib, <<E0("port", NoAttrib, <<X, Y>>)>>)}

MatchElems == LeafElems \cup NestedElems \cup MultiElems

FirstElems ==
    {E0("port", Id("1"), <<>>), X, E0("other", NoAttrib, <<X, Y>>)}

SecondElems ==
    {Y, E0("other", Id("1"), <<>>), E0("port", NoAttrib, <<Y>>),
     E0("port", NoAttrib, <<X, Y>>)}

\* requests handed to BranchNode.handle_xml
BranchRequests ==
    {E0("req", NoAttrib, <<>>)}
    \cup {E0("req", NoAttrib, <<e>>) : e \in MatchElems}
    \cup {E0("req", NoAttrib, <<e, f>>) : e \in FirstElems, f \in SecondElems}

\* request elements with text around them
PPost == Elem("p", NoAttrib, <<>>, PyNone, Str(<<Text("post")>>))

CbFull == Elem("cb", NoAttrib, <<PPost>>, Str(<<Text("pre")>>), Str(<<>>))

CbBare == E0("cb", NoAttrib, <<>>)

ZZ == E0("zz", NoAttrib, <<>>)

\* requests handed to a TargetNode with a callback
CallbackRequests ==
    {Elem("cb", NoAttrib, kids, text, tail) :
        kids \in {<<>>, <<PPost>>, <<X, PPost>>, <<E0("port", Id("1"), <<X>>)>>},
        text \in {PyNone, Str(<<Text("pre")>>)},
        tail \in {PyNone, Str(<<>>), Str(<<Text("nl")>>)}}

\* requests handed to a TargetNode without a callback
StructuralRequests ==
    {E0("cmd", NoAttrib, kids) :
        kids \in {<<>>, <<X>>, <<ZZ>>, <<X, ZZ, E0("port", NoAttrib, <<>>)>>,
                  <<E0("port", NoAttrib, <<X>>), X>>, <<CbFull, X>>,
                  <<ZZ, CbFull>>, <<CbBare>>, <<X, X>>,
                  <<E0("port", NoAttrib, <<X, Y>>)>>}}

TargetRequests(n) ==
    IF Nodes[n].callback THEN CallbackRequests ELSE StructuralRequests

MatchNodes == 3 .. 7

DispatchNodes == {1, 2, 4, 6, 9}

LeafNodes == 7 .. 11

TraversalNodes == {1, 3, 6, 7}

Next ==
    \/ \E p \in MatchNodes, c \in MatchNodes : attach(p, c)
    \/ \E n \in MatchNodes, x \in BranchRequests : BranchHandleXml(n, x)
    \/ \E n \in MatchNodes : RoundTrip(n)

Spec == Init /\ [][Next]_vars

NextTarget ==
    \/ \E p \in DispatchNodes, c \in DispatchNodes : attach(p, c)
    \/ \E n \in DispatchNodes : \E x \in TargetRequests(n) :
          TargetHandleXml(n, x)

SpecTarget == Init /\ [][NextTarget]_vars

NextLeaf ==
    \/ \E n \in LeafNodes : LeafToxml(n)
    \/ \E n \in LeafNodes : DeviceChange(n)

SpecLeaf == Init /\ [][NextLeaf]_vars

NextTraversal ==
    \/ \E p \in TraversalNodes, c \in TraversalNodes : attach(p, c)
    \/ \E k \in CopyTraversals \cup LiveTraversals, b \in TraversalNodes :
          StartTraversal(k, b)
    \/ StepTraversal

SpecTraversal == Init /\ [][NextTraversal]_vars

-----------------------------------------------------------------------------
(* Properties of BranchNode.handle_xml and the attribute matcher *)

IsBranchCall == op.name = "BranchNode.handle_xml"

Range(seq) == {seq[i] : i \in DOMAIN seq}

\* the level rule of the matcher: same name, and every attribute of the
\* request element is a declared attribute with one of its legal values
Level(e, c) ==
    /\ Nodes[c].name = e.tag
    /\ \A kv \in e.attrib :
          \E i \in DOMAIN Nodes[c].attrs :
              /\ Nodes[c].attrs[i].name = kv[1]
              /\ kv[2] \in Nodes[c].attrs[i].values

\* the first node of kids, in declaration order, that satisfies P
FirstOf(kids, P(_)) ==
    IF \E i \in DOMAIN kids : P(kids[i])
    THEN kids[CHOOSE i \in DOMAIN kids :
                  P(kids[i]) /\ \A j \in 1 .. i - 1 : ~P(kids[j])]
    ELSE NoMatch

\* N of the example: the first port node, with id in {"1", "2"}
PortN == CHOOSE n \in Ids : /\ Nodes[n].name = "port"
                            /\ \A k \in Ids : Nodes[k].name = "port" => n <= k

\* C1: a request element without nested children resolves to the first
\* child of the branch, in declaration order, whose name is its tag and whose
\* legal (attribute, value) set contains all its attributes, and to None when
\* there is no such child; with N = port(id in {1,2}), <port id="1"/>
\* resolves to N, <port id="3"/> and <other id="1"/> never do.
C1_LevelRule ==
    IsBranchCall =>
      \A i \in DOMAIN op.matched :
        LET e == op.req.children[i]
            m == op.matched[i]
            kids == children[op.node]
        IN e.children = <<>> =>
             /\ m = FirstOf(kids, LAMBDA c : Level(e, c))
             /\ m # NoMatch => m \in Range(kids) /\ Level(e, m)
             /\ (e = E0("port", Id("1"), <<>>) /\ PortN \in Range(kids))
                  => m = PortN
             /\ (e = E0("port", NoAttrib, <<>>) /\ kids = <<PortN>>)
                  => m = PortN
             /\ e = E0("port", Id("3"), <<>>) =>
                  /\ m # PortN
                  /\ 5 \notin Range(kids) => m = NoMatch
             /\ e.tag = "other" => m = NoMatch

C1_Witness ==
    /\ IsBranchCall
    /\ PortN \in Range(children[op.node])
    /\ op.req.children = <<E0("port", Id("1"), <<>>),
                           E0("other", Id("1"), <<>>)>>
    /\ op.matched = <<PortN, NoMatch>>

\* C2: a request without children is answered with exactly branch.toxml();
\* otherwise the answer is the branch's tag around the renderings, in
\* request order, of the nodes the request children resolve to, unresolved
\* children adding nothing; the call returns unless a lookup raises.
C2_HandleXmlResult ==
    IsBranchCall =>
      LET n == op.node
          xs == op.req.children
          outcome == [i \in DOMAIN xs |-> _tree_match(children, xs[i], n)]
          resolved == SelectSeq(outcome, LAMBDA m : m # NoMatch)
          st0 == Env(op.pre)
      IN IF xs = <<>>
         THEN /\ op.err = BranchNode_toxml(children, n, st0).err
              /\ op.v = BranchNode_toxml(children, n, st0).v
         ELSE IF \E i \in DOMAIN xs : outcome[i] < 0
              THEN op.err # ""
              ELSE LET body == BranchNode_toxml_join(children, resolved, st0)
                   IN /\ op.err = body.err
                      /\ op.err = "" =>
                           op.v = IF body.v = <<>>
                                  THEN <<[t |-> "empty", n |-> Nodes[n].name,
                                          a |-> NoneAttr]>>
                                  ELSE <<[t |-> "open", n |-> Nodes[n].name,
                                          a |-> NoneAttr]>>
                                       \o body.v
                                       \o <<[t |-> "close",
                                             n |-> Nodes[n].name,
                                             a |-> NoneAttr]>>

C2_Witness ==
    /\ IsBranchCall
    /\ op.err = ""
    /\ Len(op.matched) = 2
    /\ op.matched[1] = NoMatch
    /\ op.matched[2] # NoMatch
    /\ Len(op.v) > 2

RECURSIVE Structural(_)

\* no accessor anywhere in the subtree
Structural(n) ==
    /\ Nodes[n].accessor = <<>>
    /\ \A c \in Range(children[n]) : Structural(c)

\* C5: for a branch without accessors in its subtree, parsing its toxml()
\* and handing the tree to its handle_xml returns a response with the same
\* tags in the same order and nesting as toxml(), without a failure.
C5_RoundTrip ==
    (op.name = "round trip" /\ Structural(op.node)) =>
      /\ op.err = ""
      /\ op.v = BranchNode_toxml(children, op.node, Env(op.pre)).v

\* a request element with more than one nested child, itself or its single
\* nested child
MultiChild(e) ==
    \/ Len(e.children) > 1
    \/ Len(e.children) = 1 /\ Len(e.children[1].children) > 1

\* C6 as stated: a request element at an addressing position with more than
\* one nested child makes the call fail, whether or not a candidate matches.
C6_MultiChildAlwaysFails ==
    IsBranchCall =>
      \A i \in DOMAIN op.req.children :
        MultiChild(op.req.children[i]) => op.err # ""

\* C6 amended: such an element makes the call fail exactly when a candidate
\* reached by the lookup matches its tag and attributes; when none does the
\* lookup yields None, nothing is raised and the request child is dropped.
C6_MultiChildFailsWhenMatched ==
    IsBranchCall =>
      /\ \A i \in DOMAIN op.matched :
           LET e == op.req.children[i]
               m == op.matched[i]
               kids == children[op.node]
           IN /\ Len(e.children) > 1 =>
                   m = IF \E c \in Range(kids) : Level(e, c)
                       THEN AssertionError ELSE NoMatch
              /\ (Len(e.children) = 1 /\ Len(e.children[1].children) > 1) =>
                   LET reached(c) ==
                         /\ Level(e, c)
                         /\ \/ ~IsBranch(c)
                            \/ \E d \in Range(children[c]) :
                                  Level(e.children[1], d)
                   IN IF \E c \in Range(kids) : reached(c)
                      THEN m < 0 ELSE m = NoMatch
      /\ op.err # "" <=> (op.matched # <<>> /\ op.matched[Len(op.matched)] < 0)
      /\ op.err = "" => Len(op.matched) = Len(op.req.children)
      /\ \A i \in 1 .. Len(op.matched) - 1 : op.matched[i] >= 0

C6_Witness ==
    /\ IsBranchCall
    /\ op.req.children = <<E0("other", NoAttrib, <<X, Y>>),
                           E0("port", NoAttrib, <<X, Y>>)>>
    /\ op.matched = <<NoMatch, AssertionError>>
    /\ op.err = "AssertionError"

\* C8 as stated: once a candidate matches at its level an element with one
\* nested child, that candidate alone decides: if none of its children
\* match the nested element the lookup yields None.
C8_NoBacktracking ==
    IsBranchCall =>
      \A i \in DOMAIN op.matched :
        LET e == op.req.children[i]
            kids == children[op.node]
            c == FirstOf(kids, LAMBDA k : Level(e, k))
        IN (/\ Len(e.children) = 1
            /\ e.children[1].children = <<>>
            /\ c # NoMatch
            /\ IsBranch(c)
            /\ \A d \in Range(children[c]) : ~Level(e.children[1], d))
           => op.matched[i] = NoMatch

RECURSIVE Completes(_, _)
RECURSIVE Outcome(_, _)

\* candidate c ends the search for element e: it matches e at its level
\* and either e asks for nothing below it, or e cannot be followed below c
\* (several nested children, or c a leaf), or a child of c ends the search
\* for the nested element
Completes(e, c) ==
    /\ Level(e, c)
    /\ \/ Len(e.children) # 1
       \/ ~IsBranch(c)
       \/ \E d \in Range(children[c]) : Completes(e.children[1], d)

\* what the first candidate that ends the search yields
Outcome(e, kids) ==
    LET c == FirstOf(kids, LAMBDA k : Completes(e, k))
    IN IF c = NoMatch THEN NoMatch
       ELSE IF e.children = <<>> THEN c
       ELSE IF Len(e.children) > 1 THEN AssertionError
       ELSE IF ~IsBranch(c) THEN NotIterable
       ELSE Outcome(e.children[1], children[c])

\* C8 amended: candidates are tried in declaration order, but a level match
\* is not final: a candidate that matches at its level and has no child
\* matching the nested element yields None for itself only, the later
\* siblings are still tried, the lookup returns the match under the first
\* candidate that matches completely, and yields None only when no candidate
\* does (a leaf candidate matched with a nested element, or a matched
\* element with several nested children, raises when it is reached).
C8_FirstFullMatchWins ==
    IsBranchCall =>
      \A i \in DOMAIN op.matched :
        op.matched[i] = Outcome(op.req.children[i], children[op.node])

C8_Witness ==
    /\ IsBranchCall
    /\ children[op.node] = <<4, 5>>
    /\ children[4] = <<6>>
    /\ children[5] = <<7>>
    /\ op.req.children = <<E0("port", NoAttrib, <<Y>>)>>
    /\ op.matched = <<7>>
    /\ op.err = ""

-----------------------------------------------------------------------------
(* Properties of TargetNode.handle_xml *)

IsTargetCall == op.name = "TargetNode.handle_xml"

RECURSIVE Verbatim(_)

\* the request children serialized one after the other, without the text
\* that follows each of them
Verbatim(es) ==
    IF es = <<>> THEN <<>> ELSE ElemXml(Head(es)) \o Verbatim(Tail(es))

\* the raw text of a request subtree as the callback is meant to get it:
\* leading text, the children, the trailing text after the last child
RawText(e) ==
    e.text.s \o Verbatim(e.children)
    \o (IF e.children = <<>> THEN <<>>
        ELSE e.children[Len(e.children)].tail.s)

\* C3: a target with a callback invokes it exactly once, with the leading
\* text, the children serialized in order and the trailing text after the
\* last child (absent parts being empty), returns what the callback
\* returns, and consults no declared child.
C3_CallbackPayload ==
    (IsTargetCall /\ Nodes[op.node].callback) =>
      /\ op.err = ""
      /\ op.cb = <<RawText(op.req)>>
      /\ op.v = callback(RawText(op.req))
      /\ \A n \in Ids : op.calls[n] = 0

RECURSIVE C4_Concat(_, _, _)

\* child.handle_xml(request_child) for the request children xs in order,
\* each handled by the first same-named child of target n
C4_Concat(n, xs, st) ==
    IF xs = <<>> THEN Ok(<<>>, st)
    ELSE LET child == FirstOf(children[n],
                              LAMBDA c : Nodes[c].name = Head(xs).tag)
             r == handle_xml(children, child, Head(xs), st)
         IN IF r.err # "" THEN r
            ELSE LET rest == C4_Concat(n, Tail(xs), r.st)
                 IN IF rest.err # "" THEN rest
                    ELSE Ok(r.v \o rest.v, rest.st)

\* C4: a target without a callback returns the concatenation, in request
\* order, of child.handle_xml(request_child) for the request children whose
\* tag is the name of an immediate child (the first of that name), each
\* handler receiving its request child; the other request children add
\* nothing and raise nothing.
C4_StructuralDispatch ==
    (IsTargetCall /\ ~Nodes[op.node].callback) =>
      LET n == op.node
          named == SelectSeq(op.req.children,
                             LAMBDA e : \E c \in Range(children[n]) :
                                           Nodes[c].name = e.tag)
          expected == C4_Concat(n, named, Env(op.pre))
      IN /\ op.err = expected.err
         /\ op.v = expected.v
         /\ op.cb = expected.st.cb
         /\ named = <<>> => op.err = "" /\ op.v = <<>>

C4_Witness ==
    /\ IsTargetCall
    /\ ~Nodes[op.node].callback
    /\ op.req.children = <<ZZ, CbFull>>
    /\ op.err = ""
    /\ op.cb = <<<<Text("pre")>> \o ET_tostring(PPost)>>
    /\ op.v = callback(op.cb[1])

-----------------------------------------------------------------------------
(* Properties of SimpleLeafNode.toxml *)

IsLeafCall == op.name = "SimpleLeafNode.toxml"

\* the tag of node n with a body and attributes, self-closing without body
Tag(n, body, attributes) ==
    IF body = <<>>
    THEN <<[t |-> "empty", n |-> Nodes[n].name, a |-> attributes]>>
    ELSE <<[t |-> "open", n |-> Nodes[n].name, a |-> attributes]>>
         \o body \o <<[t |-> "close", n |-> Nodes[n].name, a |-> NoneAttr]>>

\* C7: without an accessor the leaf renders the self-closing tag without
\* body and attributes; an accessor returning a bare string s renders body s
\* without attributes; an accessor returning a pair (body, attributes)
\* renders that body with exactly those attributes; the setter is never
\* invoked.
C7_ToxmlByShape ==
    IsLeafCall =>
      LET n == op.node
          results == Nodes[n].accessor
          k == op.pre[n]
      IN /\ op.setter = 0
         /\ results = <<>> =>
              /\ op.err = ""
              /\ op.v = Tag(n, <<>>, NoneAttr)
              /\ op.calls[n] = 0
         /\ (results # <<>> /\ results[k].shape = "str") =>
              /\ op.err = ""
              /\ op.v = Tag(n, results[k].body.s, NoneAttr)
         /\ (/\ results # <<>>
             /\ results[k].shape = "pair"
             /\ results[(k % Len(results)) + 1] = results[k]) =>
              /\ op.err = ""
              /\ op.v = Tag(n, results[k].body.s, results[k].attributes)

C7_Witness ==
    /\ IsLeafCall
    /\ Nodes[op.node].accessor = <<AccPair(Str(<<Text("42")>>), UnitC)>>
    /\ op.v = <<[t |-> "open", n |-> "y", a |-> Dict({<<"unit", "C">>})],
                Text("42"),
                [t |-> "close", n |-> "y", a |-> NoneAttr]>>

\* C10: every toxml() of a leaf with an accessor invokes the accessor
\* exactly once, whatever the shape of its result.
C10_SingleAccessorCall ==
    (IsLeafCall /\ Nodes[op.node].accessor # <<>>) => op.calls[op.node] = 1

-----------------------------------------------------------------------------
(* Properties of the traversals *)

\* C9: every traversal of a branch's children visits the children the
\* branch had when the traversal started, in that order, whatever attach()
\* does meanwhile.
C9_SnapshotTraversal ==
    /\ trav.kind # "" =>
         /\ Len(trav.visited) <= Len(trav.start)
         /\ trav.visited = SubSeq(trav.start, 1, Len(trav.visited))
    /\ (trav.kind # "" /\ trav.done) => trav.visited = trav.start

====
